---- MODULE Spec2Model ----
(***************************************************************************)
(* Model of the Handlebars preview extension: the list of preview panels   *)
(* (extension.ts), the PreviewPanelScope class and the render pipeline     *)
(* (preview-panel-scope.ts).  Every async handler is a task whose position *)
(* (pc) is one of its await points; one action is the code that runs       *)
(* between two await points.                                               *)
(***************************************************************************)
EXTENDS Integers, Sequences, FiniteSets, TLC

\* ------------------------------------------------------------------ bounds
MaxEvents == 4          \* host events (edits, file writes, closes, commands)
TaskIds == {1, 2}       \* handler invocations in flight at the same time
MaxPad == 2             \* leading whitespace characters of an image reference

\* ------------------------------------------------------- the host's world
WsDocs == {"/w/a.hbs", "/w/b.hbs"}      \* template documents inside folder /w
NoWsDoc == "/x/c.hbs"                   \* a document outside every folder
CtxDocs == {"/w/a.hbs"}                 \* documents whose .json file is written
EditedDocs == {"/w/a.hbs"}              \* documents whose text is edited
EditorDocs == WsDocs \cup {NoWsDoc}
NoFolder == "none"
FragFiles == {"/w/header.hbs"}          \* fragment files of folder /w
NoPartial == "<unregistered>"
FragContents == {"<h1>Hi</h1>", "<h1>Yo</h1>"}
Missing == "<ENOENT>"                   \* the file does not exist
CtxContents == {Missing, "", "{\"name\":", "{\"name\":\"A\"}", "{\"name\":\"B\"}"}
TName == "<p>{{name}}</p>"
TPartial == "{{> header}}"
TBad == "{{#if"
TImg == "<img src=\"a.png\">"
TImgNoSrc == "<img>"
Texts == {TName, TPartial, TBad, TImg, TImgNoSrc}
NoSess == 0

\* the folder whose path contains the file
FolderOf(f) == IF f \in WsDocs \cup FragFiles THEN "/w" ELSE NoFolder

\* partialNameGenerator(fsPath, workspaceRoot): the path relative to the root,
\* extension stripped
partialNameGenerator(f, root) ==
    CASE f = "/w/header.hbs" /\ root = "/w" -> "header"
      [] OTHER -> f
PartialNames == {partialNameGenerator(f, FolderOf(f)) : f \in FragFiles}

\* path.dirname(document.fileName), as characters
dirname(d) ==
    CASE d \in WsDocs -> <<"/", "w">>
      [] OTHER -> <<"/", "x">>

\* ---------------------------------------------------------- render pipeline
\* A JSON object is the set of its <<key, value>> pairs.
EmptyObject == {}

\* the text of the JSON object {"name": v}
JSONtext(v) == IF v = "A" THEN "{\"name\":\"A\"}" ELSE "{\"name\":\"B\"}"

\* JSON.parse: [ok, value]
JSONparse(text) ==
    CASE text = "{\"name\":\"A\"}" -> [ok |-> TRUE, value |-> {<<"name", "A">>}]
      [] text = "{\"name\":\"B\"}" -> [ok |-> TRUE, value |-> {<<"name", "B">>}]
      [] OTHER -> [ok |-> FALSE, value |-> EmptyObject]

\* promises.readFile: [ok, text]
readFile(content) ==
    IF content = Missing THEN [ok |-> FALSE, text |-> ""]
    ELSE [ok |-> TRUE, text |-> content]

\* Outcomes of a call: a value, or an exception leaving the call.
Returned(v) == [kind |-> "return", value |-> v]
Thrown == [kind |-> "throw", value |-> {}]

getContextDataNoCatch(content) ==
    LET r == readFile(content) IN
    IF ~r.ok THEN Thrown
    ELSE LET p == JSONparse(r.text) IN IF p.ok THEN Returned(p.value) ELSE Thrown

\* getContextData: read and parse, {} on any failure
getContextData(content) ==
    LET r == readFile(content) IN
    IF ~r.ok THEN Returned(EmptyObject)
    ELSE LET p == JSONparse(r.text) IN
         IF p.ok THEN Returned(p.value) ELSE Returned(EmptyObject)

\* HTML is a sequence of nodes; an img node carries its src as characters.
TextNode(tag, text) == [tag |-> tag, text |-> text, hasSrc |-> FALSE, src |-> <<>>]
ImgNode(src) == [tag |-> "img", text |-> "", hasSrc |-> TRUE, src |-> src]

Lookup(ctx, key) ==
    IF \E p \in ctx : p[1] = key THEN (CHOOSE p \in ctx : p[1] = key)[2] ELSE ""

\* compile(template): the compiled template, or a parse error
compile(text) == IF text = TBad THEN Thrown ELSE Returned(text)

\* template(templateContext): evaluation against the context and the
\* registered partials
template(compiled, ctx, reg) ==
    CASE compiled = TName -> Returned(<<TextNode("p", Lookup(ctx, "name"))>>)
      [] compiled = TPartial ->
            IF reg["header"] = NoPartial THEN Thrown
            ELSE Returned(<<TextNode("partial", reg["header"])>>)
      [] compiled = TImg -> Returned(<<ImgNode(<<"a", ".", "p", "n", "g">>)>>)
      [] compiled = TImgNoSrc ->
            Returned(<<[tag |-> "img", text |-> "", hasSrc |-> FALSE, src |-> <<>>]>>)
      [] OTHER -> Thrown

ErrorMessage == "Error rendering handlebars template"

\* renderTemplate: the html, or false after reporting the error
renderTemplate(compiled, ctx, reg) ==
    LET r == template(compiled, ctx, reg) IN
    IF r.kind = "return" THEN [kind |-> "html", html |-> r.value]
    ELSE [kind |-> "false", html |-> <<>>]

toLowerCase(c) ==
    CASE c = "D" -> "d" [] c = "A" -> "a" [] c = "T" -> "t"
      [] c = "H" -> "h" [] c = "P" -> "p" [] OTHER -> c
LowerSeq(s) == [i \in 1..Len(s) |-> toLowerCase(s[i])]
Whitespace == {" ", "\t"}
RECURSIVE trimLeft(_)
trimLeft(s) == IF s # <<>> /\ Head(s) \in Whitespace THEN trimLeft(Tail(s)) ELSE s
slice(s, n) == SubSeq(s, 1, IF Len(s) < n THEN Len(s) ELSE n)
startsWith(s, p) == Len(s) >= Len(p) /\ SubSeq(s, 1, Len(p)) = p

needsRepathNoTrim(src) ==
    /\ LowerSeq(slice(src, 5)) # <<"d", "a", "t", "a", ":">>
    /\ ~startsWith(LowerSeq(src), <<"h", "t", "t", "p">>)

\* the filter of repathImages: TRUE for the references that are rewritten
needsRepath(src) ==
    /\ LowerSeq(slice(trimLeft(src), 5)) # <<"d", "a", "t", "a", ":">>
    /\ ~startsWith(LowerSeq(src), <<"h", "t", "t", "p">>)

\* path.join(dir, src)
pathJoin(dir, src) ==
    IF Len(src) >= 2 /\ SubSeq(src, 1, 2) = <<".", "/">>
    THEN dir \o <<"/">> \o SubSeq(src, 3, Len(src))
    ELSE dir \o <<"/">> \o src

\* uri.with({scheme: 'vscode-resource', path}).toString()
toSurfaceReference(path) == <<"vscode-resource:">> \o path

\* repathImages(html, templateDocument): throws on an img without src
repathImages(html, d) ==
    IF \E i \in 1..Len(html) : html[i].tag = "img" /\ ~html[i].hasSrc THEN Thrown
    ELSE Returned([i \in 1..Len(html) |->
            IF html[i].tag = "img" /\ needsRepath(html[i].src)
            THEN ImgNode(toSurfaceReference(pathJoin(dirname(d), html[i].src)))
            ELSE html[i]])

\* The three results of getCompiledHtml: html, false (the error message went
\* to showErrorMessage), or an exception leaving the call.
HtmlResult(h) == [kind |-> "html", html |-> h, message |-> ""]
FalseResult == [kind |-> "false", html |-> <<>>, message |-> ErrorMessage]
ThrowResult == [kind |-> "throw", html |-> <<>>, message |-> ""]

getCompiledHtmlNoCatch(ctx, text, reg, d) ==
    IF ctx.kind = "throw" THEN ThrowResult
    ELSE LET c == compile(text) IN
         IF c.kind = "throw" THEN ThrowResult
         ELSE LET rendered == renderTemplate(c.value, ctx.value, reg) IN
              IF rendered.kind = "false" THEN FalseResult
              ELSE LET p == repathImages(rendered.html, d) IN
                   IF p.kind = "throw" THEN ThrowResult ELSE HtmlResult(p.value)

\* getCompiledHtml: ctx is the outcome of the awaited getContextData (line
\* 92, outside the try); compile, render and repath run inside the try.
getCompiledHtml(ctx, text, reg, d) ==
    IF ctx.kind = "throw" THEN ThrowResult
    ELSE LET c == compile(text) IN
         IF c.kind = "throw" THEN FalseResult
         ELSE LET rendered == renderTemplate(c.value, ctx.value, reg) IN
              IF rendered.kind = "false" THEN FalseResult
              ELSE LET p == repathImages(rendered.html, d) IN
                   IF p.kind = "throw" THEN FalseResult ELSE HtmlResult(p.value)

\* the page of showErrorPage: the message in a centered span
ErrorPage(message) == <<TextNode("span", message)>>

\* ------------------------------------------------------------------- state
VARIABLES
    panels,         \* extension.ts: the list `panels`, as session ids
    scopes,         \* every PreviewPanelScope constructed so far, by id
    partials,       \* the Handlebars partial registry: name -> content
    partialsRegisteredByWorkspace,  \* the roots whose bulk load completed
    docText,        \* live text of each template document
    ctxFile,        \* content on disk of each document's <doc>.json
    fragFile,       \* content on disk of each fragment file
    tasks,          \* the handler invocations suspended at an await
    pendingCtx,     \* sessions whose watcher has a change event to deliver
    folders,        \* workspace.workspaceFolders, as root paths
    events,         \* host events so far
    deactivated,    \* deactivate() has run
    call            \* a call of repathImages: its arguments, then its result

vars == <<panels, scopes, partials, partialsRegisteredByWorkspace, docText,
          ctxFile, fragFile, tasks, pendingCtx, folders, events, deactivated, call>>

\* workspace.getWorkspaceFolder(uri)
getWorkspaceFolder(f) == IF FolderOf(f) \in folders THEN FolderOf(f) ELSE NoFolder

NoCtx == Returned(EmptyObject)
Idle == [kind |-> "idle", pc |-> "", doc |-> "", idx |-> 0, s |-> NoSess,
         existing |-> NoSess, ctx |-> NoCtx, files |-> <<>>, known |-> {},
         todo |-> {}]

Sessions == 1..Len(scopes)
InPanels(s) == \E k \in 1..Len(panels) : panels[k] = s
PanelsFor(d) == {k \in 1..Len(panels) : scopes[panels[k]].doc = d}
IdleTasks == {i \in TaskIds : tasks[i].kind = "idle"}
FreeTask == CHOOSE i \in IdleTasks : \A j \in IdleTasks : i <= j
CmdTasks == {i \in TaskIds : tasks[i].kind = "cmd"}

\* getContextFileName(templateFileName)
getContextFileName(d) ==
    CASE d = "/w/a.hbs" -> "/w/a.hbs.json"
      [] d = "/w/b.hbs" -> "/w/b.hbs.json"
      [] OTHER -> "/x/c.hbs.json"

\* no call of repathImages is under observation
NoCall == [html |-> <<>>, d |-> "", done |-> FALSE, out |-> Thrown]

\* the state after activate()
Activated ==
    /\ panels = <<>>
    /\ scopes = <<>>
    /\ partials = [n \in PartialNames |-> NoPartial]
    /\ partialsRegisteredByWorkspace = {}
    /\ docText = [d \in WsDocs |-> TName]
    /\ ctxFile = [d \in WsDocs |-> Missing]
    /\ fragFile = [f \in FragFiles |-> "<h1>Hi</h1>"]
    /\ tasks = [i \in TaskIds |-> Idle]
    /\ pendingCtx = {}
    /\ folders = {"/w"}
    /\ events = 0
    /\ deactivated = FALSE

Init == Activated /\ call = NoCall

\* ------------------------------------------------------ PreviewPanelScope
NewScopeNoWatcher(d) ==
    [doc |-> d, contextFileName |-> getContextFileName(d), panelDisposed |-> FALSE,
     watcherDisposed |-> TRUE, html |-> <<>>, disposeCalls |-> 0]

\* new PreviewPanelScope(editor): surface and watcher created, nothing shown
NewScope(d) == [doc |-> d, contextFileName |-> getContextFileName(d),
                panelDisposed |-> FALSE, watcherDisposed |-> FALSE,
                html |-> <<>>, disposeCalls |-> 0]

\* panel.onDidDispose listener (lines 22-25): the watcher is released;
\* onPreviewPanelClosed is not supplied by the caller (extension.ts:48), so
\* the call on line 24 does not reach the list `panels`.
onDidDispose(sc) == [sc EXCEPT !.panelDisposed = TRUE, !.watcherDisposed = TRUE]

\* disposePreviewPanel(): panel.dispose(); a second dispose does nothing
disposePreviewPanel(sc) ==
    LET called == [sc EXCEPT !.disposeCalls = @ + 1] IN
    IF sc.panelDisposed THEN called ELSE onDidDispose(called)

\* this.panel.webview.html = html: the host refuses a disposed webview
SetHtml(sc, h) ==
    IF sc.panelDisposed THEN [threw |-> TRUE, scope |-> sc]
    ELSE [threw |-> FALSE, scope |-> [sc EXCEPT !.html = h]]

\* showErrorPage(message)
showErrorPage(sc, message) == SetHtml(sc, ErrorPage(message))

\* showErrorMessage.next({panel, message}): the subscriber shows the page on
\* the panel; a failure to show it does not reach the render pipeline
showErrorMessageNext(sc, message) == showErrorPage(sc, message).scope

updateFailsOnError(sc, ctx) ==
    LET r == getCompiledHtml(ctx, docText[sc.doc], partials, sc.doc) IN
    CASE r.kind = "html" -> SetHtml(sc, r.html)
      [] OTHER -> [threw |-> TRUE, scope |-> sc]

\* update() after the awaited context load (lines 42-46, 93-108):
\* [threw, scope]
update(sc, ctx) ==
    LET r == getCompiledHtml(ctx, docText[sc.doc], partials, sc.doc) IN
    CASE r.kind = "throw" -> [threw |-> TRUE, scope |-> sc]
      [] r.kind = "false" ->
            [threw |-> FALSE, scope |-> showErrorMessageNext(sc, r.message)]
      [] OTHER -> SetHtml(sc, r.html)

\* workspaceDocumentChanged: the relevance test of line 62
isRelevant(sc, ev) == ev = sc.doc \/ ev = sc.contextFileName

\* ----------------------------------------------------------------- helpers
RECURSIVE SetToSeq(_)
SetToSeq(S) ==
    IF S = {} THEN <<>>
    ELSE LET x == CHOOSE y \in S : TRUE IN <<x>> \o SetToSeq(S \ {x})

RemoveAt(q, k) == SubSeq(q, 1, k - 1) \o SubSeq(q, k + 1, Len(q))
Min(S) == CHOOSE x \in S : \A y \in S : x <= y

FindPanelNever(d) == NoSess

\* panels.find(x => x.editorFilePath() === path): the first match, or none
FindPanel(d) == IF PanelsFor(d) = {} THEN NoSess ELSE panels[Min(PanelsFor(d))]
indexOf(q, s) == Min({k \in 1..Len(q) : q[k] = s})

\* a disposed watcher delivers nothing
LiveWatchers(sc, S) == {s \in S : ~sc[s].watcherDisposed}

CmdTask(pc, d, s, existing) ==
    [Idle EXCEPT !.kind = "cmd", !.pc = pc, !.doc = d, !.s = s, !.existing = existing]

\* `for (const panel of panels)`: the next index at or after `from` whose
\* panel starts a render (every panel for a fragment update, the relevant
\* ones for a document change); 0 when the loop ends.
NextIndex(kind, ev, from) ==
    LET K == {k \in from..Len(panels) :
                kind = "partial" \/ isRelevant(scopes[panels[k]], ev)} IN
    IF K = {} THEN 0 ELSE Min(K)

\* the panels a loop starting now is to reach
LoopTargets(kind, ev) ==
    {panels[k] : k \in {j \in 1..Len(panels) :
                          kind = "partial" \/ isRelevant(scopes[panels[j]], ev)}}

\* the loop suspended in the update of panels[k]; todo is what remains of
\* the panels that were to be reached when the loop started
LoopTask(kind, ev, k, todo) ==
    IF k = 0 THEN Idle
    ELSE [Idle EXCEPT !.kind = kind, !.pc = "ctxRead", !.doc = ev, !.idx = k,
                      !.s = panels[k], !.todo = todo \ {panels[k]}]

\* ------------------------------------------------------------ previewCommand
\* lines 47-48 and update() up to its await: the panel exists, unregistered
StartPanel(i, d, existing, sc) ==
    /\ scopes' = Append(sc, NewScope(d))
    /\ tasks' = [tasks EXCEPT ![i] = CmdTask("ctxRead", d, Len(sc) + 1, existing)]

\* lines 23-45, to the first await
PreviewCommand(d) ==
    /\ ~deactivated
    /\ events < MaxEvents
    /\ IdleTasks # {}
    /\ events' = events + 1
    /\ LET existingPanel == FindPanel(d)
           sc == IF existingPanel = NoSess THEN scopes
                 ELSE [scopes EXCEPT ![existingPanel] = disposePreviewPanel(@)]
           workspaceRoot == getWorkspaceFolder(d)
       IN /\ panels' = IF existingPanel = NoSess THEN panels
                       ELSE RemoveAt(panels, indexOf(panels, existingPanel))
          /\ pendingCtx' = LiveWatchers(sc, pendingCtx)
          /\ IF workspaceRoot = NoFolder
             THEN scopes' = sc /\ tasks' = tasks
             ELSE IF workspaceRoot \notin partialsRegisteredByWorkspace
             THEN /\ scopes' = sc
                  /\ tasks' = [tasks EXCEPT ![FreeTask] =
                                  CmdTask("findFiles", d, NoSess, existingPanel)]
             ELSE StartPanel(FreeTask, d, existingPanel, sc)
    /\ UNCHANGED <<partials, partialsRegisteredByWorkspace, docText, ctxFile,
                   fragFile, deactivated, folders, call>>

\* registerPartial(knownPartials)
registerPartial(reg, known) ==
    [n \in DOMAIN reg |->
        IF \E p \in known : p[1] = n THEN (CHOOSE p \in known : p[1] = n)[2]
        ELSE reg[n]]

\* lines 75-77, then 47-48: bulk registration done, the flag set, the panel built
BulkLoaded(i, known) ==
    /\ partials' = registerPartial(partials, known)
    /\ partialsRegisteredByWorkspace' =
           partialsRegisteredByWorkspace \cup {FolderOf(tasks[i].doc)}
    /\ StartPanel(i, tasks[i].doc, tasks[i].existing, scopes)

\* findAndRegisterPartials: workspace.findFiles resolves (line 64)
FindFilesDone(i) ==
    /\ tasks[i].kind = "cmd" /\ tasks[i].pc = "findFiles"
    /\ LET root == FolderOf(tasks[i].doc)
           hbsFiles == SetToSeq({f \in FragFiles :
                          fragFile[f] # Missing /\ FolderOf(f) = root})
       IN IF hbsFiles = <<>>
          THEN BulkLoaded(i, {})
          ELSE /\ tasks' = [tasks EXCEPT ![i].pc = "readFiles", ![i].files = hbsFiles]
               /\ UNCHANGED <<scopes, partials, partialsRegisteredByWorkspace, folders>>
    /\ UNCHANGED <<panels, docText, ctxFile, fragFile, pendingCtx, events, deactivated,
                   folders, call>>

\* knownPartials[name] = content
PutKnown(known, name, text) == {p \in known : p[1] # name} \cup {<<name, text>>}

\* findAndRegisterPartials: one readFile of the loop resolves or rejects
\* (lines 67-73); a rejection leaves the command
ReadPartialFile(i) ==
    /\ tasks[i].kind = "cmd" /\ tasks[i].pc = "readFiles"
    /\ LET hbs == Head(tasks[i].files)
           folder == getWorkspaceFolder(hbs)
           r == readFile(fragFile[hbs])
           known == IF folder = NoFolder THEN tasks[i].known
                    ELSE PutKnown(tasks[i].known, partialNameGenerator(hbs, folder), r.text)
       IN IF folder # NoFolder /\ ~r.ok
          THEN /\ tasks' = [tasks EXCEPT ![i] = Idle]
               /\ UNCHANGED <<scopes, partials, partialsRegisteredByWorkspace>>
          ELSE IF Tail(tasks[i].files) = <<>>
          THEN BulkLoaded(i, known)
          ELSE /\ tasks' = [tasks EXCEPT ![i].files = Tail(@), ![i].known = known]
               /\ UNCHANGED <<scopes, partials, partialsRegisteredByWorkspace>>
    /\ UNCHANGED <<panels, docText, ctxFile, fragFile, pendingCtx, events, deactivated,
                   folders, call>>

\* getCompiledHtml line 92: the awaited getContextData resolves
ReadContext(i) ==
    /\ tasks[i].pc = "ctxRead"
    /\ tasks' = [tasks EXCEPT ![i].pc = "ctxLoaded",
                              ![i].ctx = getContextData(ctxFile[scopes[tasks[i].s].doc])]
    /\ UNCHANGED <<panels, scopes, partials, partialsRegisteredByWorkspace, docText,
                   ctxFile, fragFile, pendingCtx, events, deactivated, folders, call>>

\* lines 49-53: update() resumes; the panel is pushed unless update threw
PreviewCommandUpdated(i) ==
    /\ tasks[i].kind = "cmd" /\ tasks[i].pc = "ctxLoaded"
    /\ LET s == tasks[i].s
           u == update(scopes[s], tasks[i].ctx)
       IN /\ scopes' = [scopes EXCEPT ![s] = u.scope]
          /\ panels' = IF u.threw THEN panels ELSE Append(panels, s)
    /\ tasks' = [tasks EXCEPT ![i] = Idle]
    /\ UNCHANGED <<partials, partialsRegisteredByWorkspace, docText, ctxFile,
                   fragFile, pendingCtx, events, deactivated, folders, call>>

\* --------------------------------------------------- onDidChangeTextDocument
\* lines 15-19 to the first awaited render: the handler walks `panels`
TextDocumentChanged(ev) ==
    /\ IdleTasks # {}
    /\ tasks' = [tasks EXCEPT ![FreeTask] = LoopTask("docchg", ev, NextIndex("docchg", ev, 1),
                                                     LoopTargets("docchg", ev))]

\* the author edits a template document
EditDocument(d, text) ==
    /\ ~deactivated
    /\ events < MaxEvents
    /\ text # docText[d]
    /\ events' = events + 1
    /\ docText' = [docText EXCEPT ![d] = text]
    /\ TextDocumentChanged(d)
    /\ UNCHANGED <<panels, scopes, partials, partialsRegisteredByWorkspace,
                   ctxFile, fragFile, pendingCtx, deactivated, folders, call>>

\* the author edits a context file inside the editor: the change event names
\* the .json document, the file on disk is as before
EditContextDocument(d) ==
    /\ ~deactivated
    /\ events < MaxEvents
    /\ events' = events + 1
    /\ TextDocumentChanged(getContextFileName(d))
    /\ UNCHANGED <<panels, scopes, partials, partialsRegisteredByWorkspace, docText,
                   ctxFile, fragFile, pendingCtx, deactivated, folders, call>>

\* one update() of a loop over `panels` resumes (lines 16-18, 97-99, 114-116);
\* an exception ends the loop, otherwise the loop goes on
LoopUpdated(i) ==
    /\ tasks[i].kind \in {"docchg", "partial"} /\ tasks[i].pc = "ctxLoaded"
    /\ LET s == tasks[i].s
           u == update(scopes[s], tasks[i].ctx)
       IN /\ scopes' = [scopes EXCEPT ![s] = u.scope]
          /\ tasks' = [tasks EXCEPT ![i] =
                IF u.threw THEN Idle
                ELSE LoopTask(tasks[i].kind, tasks[i].doc,
                              NextIndex(tasks[i].kind, tasks[i].doc, tasks[i].idx + 1),
                              tasks[i].todo)]
    /\ UNCHANGED <<panels, partials, partialsRegisteredByWorkspace, docText, ctxFile,
                   fragFile, pendingCtx, events, deactivated, folders, call>>

\* ------------------------------------------------------------ contextWatcher
\* <doc>.json is written on disk; a change of an existing file is queued for
\* every live watcher of that file (creation and deletion are other events)
WriteContextFile(d, content) ==
    /\ ~deactivated
    /\ events < MaxEvents
    /\ content # ctxFile[d]
    /\ events' = events + 1
    /\ ctxFile' = [ctxFile EXCEPT ![d] = content]
    /\ pendingCtx' =
          IF content = Missing \/ ctxFile[d] = Missing THEN pendingCtx
          ELSE pendingCtx \cup {s \in Sessions :
                                  scopes[s].doc = d /\ ~scopes[s].watcherDisposed}
    /\ UNCHANGED <<panels, scopes, partials, partialsRegisteredByWorkspace, docText,
                   fragFile, tasks, deactivated, folders, call>>

\* contextWatcher.onDidChange listener, to its await (lines 28-29)
ContextWatcherChanged(s) ==
    /\ s \in pendingCtx
    /\ IdleTasks # {}
    /\ pendingCtx' = pendingCtx \ {s}
    /\ tasks' = [tasks EXCEPT ![FreeTask] =
                    [Idle EXCEPT !.kind = "ctxwatch", !.pc = "ctxRead",
                                 !.doc = scopes[s].doc, !.s = s]]
    /\ UNCHANGED <<panels, scopes, partials, partialsRegisteredByWorkspace, docText,
                   ctxFile, fragFile, events, deactivated, folders, call>>

\* the .then of lines 29-33; an exception is an unhandled rejection
ContextWatcherRendered(i) ==
    /\ tasks[i].kind = "ctxwatch" /\ tasks[i].pc = "ctxLoaded"
    /\ scopes' = [scopes EXCEPT ![tasks[i].s] = update(@, tasks[i].ctx).scope]
    /\ tasks' = [tasks EXCEPT ![i] = Idle]
    /\ UNCHANGED <<panels, partials, partialsRegisteredByWorkspace, docText, ctxFile,
                   fragFile, pendingCtx, events, deactivated, folders, call>>

\* ----------------------------------------------------------- watchForPartials
\* a fragment file is created, changed or deleted on disk; onDidCreate and
\* onDidChange run to their awaited readFile (lines 83-92, 102-111)
WriteFragmentFile(f, content) ==
    /\ ~deactivated
    /\ events < MaxEvents
    /\ IdleTasks # {}
    /\ content # fragFile[f]
    /\ events' = events + 1
    /\ fragFile' = [fragFile EXCEPT ![f] = content]
    /\ tasks' = IF content = Missing \/ getWorkspaceFolder(f) = NoFolder THEN tasks
                ELSE [tasks EXCEPT ![FreeTask] =
                        [Idle EXCEPT !.kind = "partial", !.pc = "fragRead",
                                     !.files = <<f>>]]
    /\ UNCHANGED <<panels, scopes, partials, partialsRegisteredByWorkspace, docText,
                   ctxFile, pendingCtx, deactivated, folders, call>>

\* the awaited readFile of the fragment resolves or rejects
ReadFragment(i) ==
    /\ tasks[i].kind = "partial" /\ tasks[i].pc = "fragRead"
    /\ LET f == Head(tasks[i].files)
           r == readFile(fragFile[f])
       IN tasks' = [tasks EXCEPT ![i] =
              IF ~r.ok THEN Idle
              ELSE [@ EXCEPT !.pc = "fragLoaded",
                     !.known = {<<partialNameGenerator(f, FolderOf(f)), r.text>>}]]
    /\ UNCHANGED <<panels, scopes, partials, partialsRegisteredByWorkspace, docText,
                   ctxFile, fragFile, pendingCtx, events, deactivated, folders, call>>

\* registerPartial, then the loop over `panels` to its first awaited update
RegisterFragment(i) ==
    /\ tasks[i].kind = "partial" /\ tasks[i].pc = "fragLoaded"
    /\ partials' = registerPartial(partials, tasks[i].known)
    /\ tasks' = [tasks EXCEPT ![i] = LoopTask("partial", "", NextIndex("partial", "", 1),
                                                LoopTargets("partial", ""))]
    /\ UNCHANGED <<panels, scopes, partialsRegisteredByWorkspace, docText, ctxFile,
                   fragFile, pendingCtx, events, deactivated, folders, call>>

\* ------------------------------------------------------------ surface, exit
\* the user closes a preview surface: panel.onDidDispose fires
CloseSurface(s) ==
    /\ ~deactivated
    /\ events < MaxEvents
    /\ ~scopes[s].panelDisposed
    /\ events' = events + 1
    /\ scopes' = [scopes EXCEPT ![s] = onDidDispose(@)]
    /\ pendingCtx' = pendingCtx \ {s}
    /\ UNCHANGED <<panels, partials, partialsRegisteredByWorkspace, docText, ctxFile,
                   fragFile, tasks, deactivated, folders, call>>

\* the user removes a folder from the workspace; open documents stay open
RemoveWorkspaceFolder(root) ==
    /\ ~deactivated
    /\ events < MaxEvents
    /\ root \in folders
    /\ events' = events + 1
    /\ folders' = folders \ {root}
    /\ UNCHANGED <<panels, scopes, partials, partialsRegisteredByWorkspace, docText,
                   ctxFile, fragFile, tasks, pendingCtx, deactivated, call>>

\* deactivate(): panels.forEach(x => x.disposePreviewPanel())
Deactivate ==
    /\ ~deactivated
    /\ events < MaxEvents
    /\ events' = events + 1
    /\ deactivated' = TRUE
    /\ scopes' = [s \in Sessions |->
                    IF InPanels(s) THEN disposePreviewPanel(scopes[s]) ELSE scopes[s]]
    /\ pendingCtx' = LiveWatchers(scopes', pendingCtx)
    /\ UNCHANGED <<panels, partials, partialsRegisteredByWorkspace, docText, ctxFile,
                   fragFile, tasks, folders, call>>

\* ------------------------------------------------------------ specification
Next ==
    \/ \E d \in EditorDocs : PreviewCommand(d)
    \/ \E i \in TaskIds : FindFilesDone(i)
    \/ \E i \in TaskIds : ReadPartialFile(i)
    \/ \E i \in TaskIds : ReadContext(i)
    \/ \E i \in TaskIds : PreviewCommandUpdated(i)
    \/ \E d \in EditedDocs, text \in Texts : EditDocument(d, text)
    \/ \E d \in WsDocs : EditContextDocument(d)
    \/ \E i \in TaskIds : LoopUpdated(i)
    \/ \E d \in CtxDocs, content \in CtxContents : WriteContextFile(d, content)
    \/ \E s \in Sessions : ContextWatcherChanged(s)
    \/ \E i \in TaskIds : ContextWatcherRendered(i)
    \/ \E f \in FragFiles, content \in FragContents \cup {Missing} : WriteFragmentFile(f, content)
    \/ \E i \in TaskIds : ReadFragment(i)
    \/ \E i \in TaskIds : RegisterFragment(i)
    \/ \E s \in Sessions : CloseSurface(s)
    \/ \E root \in folders : RemoveWorkspaceFolder(root)
    \/ Deactivate

Spec == Init /\ [][Next]_vars

\* previewCommand invoked only while no other invocation is suspended
PreviewCommandAlone(d) == CmdTasks = {} /\ PreviewCommand(d)

NextSeq ==
    \/ \E d \in EditorDocs : PreviewCommandAlone(d)
    \/ \E i \in TaskIds : FindFilesDone(i)
    \/ \E i \in TaskIds : ReadPartialFile(i)
    \/ \E i \in TaskIds : ReadContext(i)
    \/ \E i \in TaskIds : PreviewCommandUpdated(i)
    \/ \E d \in EditedDocs, text \in Texts : EditDocument(d, text)
    \/ \E d \in WsDocs : EditContextDocument(d)
    \/ \E i \in TaskIds : LoopUpdated(i)
    \/ \E d \in CtxDocs, content \in CtxContents : WriteContextFile(d, content)
    \/ \E s \in Sessions : ContextWatcherChanged(s)
    \/ \E i \in TaskIds : ContextWatcherRendered(i)
    \/ \E f \in FragFiles, content \in FragContents \cup {Missing} : WriteFragmentFile(f, content)
    \/ \E i \in TaskIds : ReadFragment(i)
    \/ \E i \in TaskIds : RegisterFragment(i)
    \/ \E s \in Sessions : CloseSurface(s)
    \/ \E root \in folders : RemoveWorkspaceFolder(root)
    \/ Deactivate

\* Spec with the preview command never invoked while another invocation of
\* it is suspended at an await
SpecSeq == Init /\ [][NextSeq]_vars

\* ------------------------------------------------- repathImages on its own
\* the upper-case and lower-case forms of a character
Cases(c) ==
    CASE c = "d" -> {"d", "D"} [] c = "a" -> {"a", "A"} [] c = "t" -> {"t", "T"}
      [] c = "h" -> {"h", "H"} [] c = "p" -> {"p", "P"} [] OTHER -> {c}

\* word in every mix of upper and lower case
CaseVariants(word) ==
    {w \in [1..Len(word) -> UNION {Cases(word[i]) : i \in 1..Len(word)}] :
        \A i \in 1..Len(word) : w[i] \in Cases(word[i])}

\* runs of whitespace of up to MaxPad characters
Pads == UNION {[1..n -> Whitespace] : n \in 0..MaxPad}

\* how a reference begins: the two schemes in every case, and near misses
Schemes ==
    CaseVariants(<<"d", "a", "t", "a", ":">>) \cup CaseVariants(<<"h", "t", "t", "p">>)
        \cup {<<>>, <<".", "/">>, <<"/">>, <<"d", "a", "t", "a">>, <<"h", "t", "t">>,
              <<"x", "h", "t", "t", "p">>}
Rests == {<<"x">>, <<"a", ".", "p", "n", "g">>}

\* the src attribute values of the img elements given to repathImages
Srcs == {pad \o scheme \o rest : pad \in Pads, scheme \in Schemes, rest \in Rests}

\* html with two img elements around a paragraph
Htmls ==
    {<<ImgNode(src), TextNode("p", "x"), ImgNode(other)>> :
        src \in Srcs, other \in {<<"b", ".", "p", "n", "g">>, <<"H", "T", "T", "P", ":">>}}

InitRepath ==
    /\ Activated
    /\ call \in {[NoCall EXCEPT !.html = html, !.d = d] : html \in Htmls, d \in EditorDocs}

\* getCompiledHtml line 100: repathImages(html, templateDocument) runs
RepathImages ==
    /\ ~call.done
    /\ call' = [call EXCEPT !.done = TRUE, !.out = repathImages(call.html, call.d)]
    /\ UNCHANGED <<panels, scopes, partials, partialsRegisteredByWorkspace, docText,
                   ctxFile, fragFile, tasks, pendingCtx, folders, events, deactivated>>

NextRepath == RepathImages

\* repathImages applied to html that a render may produce
SpecRepath == InitRepath /\ [][NextRepath]_vars

\* ------------------------------------------------------------------ claims
\* the render result of the task suspended in slot i, as its continuation
\* will compute it
RenderOf(i) ==
    LET sc == scopes[tasks[i].s] IN
    getCompiledHtml(tasks[i].ctx, docText[sc.doc], partials, sc.doc)
\* slot i resumes after its context load in this step
Resumes(i) == tasks[i].pc = "ctxLoaded" /\ tasks'[i] # tasks[i]

\* C1: in every reachable state `panels` holds at most one session per
\* document path.
C1_AtMostOnePerPath == \A d \in WsDocs : Cardinality(PanelsFor(d)) <= 1

C3_ClosedNotListed ==
    \A s \in Sessions :
        scopes[s].panelDisposed => scopes[s].watcherDisposed /\ ~InPanels(s)

C5_ErrorsAreData ==
    \A i \in TaskIds : tasks[i].pc = "ctxLoaded" =>
        \/ RenderOf(i).kind = "html"
        \/ RenderOf(i).kind = "false" /\ RenderOf(i).message # ""
C5_Witness ==
    \E i \in TaskIds :
        /\ tasks[i].pc = "ctxLoaded"
        /\ docText[scopes[tasks[i].s].doc] = TImgNoSrc
        /\ RenderOf(i) = FalseResult

\* C6: the context load of a missing, empty or malformed file returns the
\* empty object, never an exception, and a template that renders with an
\* empty context then renders.
C6_ContextNeverRaises ==
    [][\A i \in TaskIds :
        (tasks[i].pc = "ctxRead" /\ tasks'[i].pc = "ctxLoaded") =>
            LET content == ctxFile[scopes[tasks[i].s].doc] IN
            /\ tasks'[i].ctx.kind = "return"
            /\ content \in {Missing, "", "{\"name\":"} =>
                  /\ tasks'[i].ctx.value = EmptyObject
                  /\ docText[scopes[tasks[i].s].doc] = TName =>
                        (RenderOf(i))' = HtmlResult(<<TextNode("p", "")>>)]_vars
C6_Witness ==
    \E i \in TaskIds :
        /\ tasks[i].pc = "ctxLoaded" /\ tasks[i].ctx.value = EmptyObject
        /\ ctxFile[scopes[tasks[i].s].doc] = "{\"name\":"
        /\ RenderOf(i).kind = "html"

C8_EveryPanelUpdated ==
    [][\A i \in TaskIds :
        /\ (tasks[i].kind = "partial" /\ tasks[i].pc = "fragLoaded"
                /\ tasks'[i] # tasks[i]) =>
              \A p \in tasks[i].known : partials'[p[1]] = p[2]
        /\ (tasks[i].kind = "partial" /\ Resumes(i) /\ tasks'[i].kind = "idle") =>
              \A s \in tasks[i].todo : ~InPanels(s) \/ scopes[s].panelDisposed]_vars

\* C9: a document-change handler re-renders every session of `panels` bound
\* to the changed document or to its context file: it does not end while one
\* of them, still listed with a live surface, has not been re-rendered; and
\* it changes the surface of no other session.
C9_EveryRelevantPanel ==
    [][\A i \in TaskIds :
        (tasks[i].kind = "docchg" /\ Resumes(i)) =>
            /\ \A s \in Sessions :
                  ~isRelevant(scopes[s], tasks[i].doc) => scopes'[s].html = scopes[s].html
            /\ tasks'[i].kind = "idle" =>
                  \A s \in tasks[i].todo : ~InPanels(s) \/ scopes[s].panelDisposed]_vars

\* C10: a preview command that ends without registering a session (no
\* workspace folder, failed bulk load, failed construction or initial
\* render) has torn down no earlier session and leaves no live surface or
\* watcher of its own.
C10_AbortHasNoEffect ==
    [][/\ Len(panels') < Len(panels) =>
            \E i \in TaskIds : tasks[i].kind = "idle" /\ tasks'[i].kind = "cmd"
       /\ \A i \in TaskIds :
            (tasks[i].kind = "cmd" /\ tasks'[i].kind = "idle" /\ panels' = panels) =>
                /\ tasks[i].existing = NoSess
                /\ tasks[i].s # NoSess =>
                      /\ scopes'[tasks[i].s].panelDisposed
                      /\ scopes'[tasks[i].s].watcherDisposed]_vars

\* a bulk scan of root is in flight in slot i
Scanning(i, root) ==
    /\ tasks[i].kind = "cmd" /\ tasks[i].pc \in {"findFiles", "readFiles"}
    /\ FolderOf(tasks[i].doc) = root

\* C11: the fragment-load flag of a root is never cleared, it is set only by
\* the step in which a bulk load of that root completes, and a bulk scan of
\* a root begins only while the root's flag is unset and no other scan of
\* that root is in flight (so the scan of a root runs at most once, also
\* for preview commands that overlap).
C11_FlagAndSingleScan ==
    [][/\ partialsRegisteredByWorkspace \subseteq partialsRegisteredByWorkspace'
       /\ \A root \in partialsRegisteredByWorkspace' \ partialsRegisteredByWorkspace :
            \E i \in TaskIds : Scanning(i, root) /\ tasks'[i].pc = "ctxRead"
       /\ \A i \in TaskIds :
            (tasks[i].kind = "idle" /\ tasks'[i].kind = "cmd"
                /\ tasks'[i].pc = "findFiles") =>
                /\ FolderOf(tasks'[i].doc) \notin partialsRegisteredByWorkspace
                /\ \A j \in TaskIds \ {i} : ~Scanning(j, FolderOf(tasks'[i].doc))]_vars

\* p is the beginning of s, letters compared without regard to case
BeginsWith(s, p) == Len(s) >= Len(p) /\ \A k \in 1..Len(p) : s[k] \in Cases(p[k])
\* s without a run of leading whitespace begins with p
BeginsAfterWhitespace(s, p) ==
    \E n \in 0..Len(s) :
        /\ \A k \in 1..n : s[k] \in Whitespace
        /\ BeginsWith(SubSeq(s, n + 1, Len(s)), p)
\* the references that the rewriting is to leave alone
LeftAlone(src) ==
    \/ BeginsAfterWhitespace(src, <<"d", "a", "t", "a", ":">>)
    \/ BeginsWith(src, <<"h", "t", "t", "p">>)

\* C12: repathImages returns the html with every img reference unchanged
\* that begins with data: after leading whitespace or begins with http (in
\* any case of the letters), every other img reference replaced by the
\* vscode-resource reference of the template's directory joined with it,
\* and every other element as it was.
C12_RepathRule ==
    call.done =>
        /\ call.out.kind = "return"
        /\ Len(call.out.value) = Len(call.html)
        /\ \A k \in 1..Len(call.html) :
            LET node == call.html[k] IN
            IF node.tag = "img" /\ ~LeftAlone(node.src)
            THEN call.out.value[k] =
                    ImgNode(<<"vscode-resource:">> \o dirname(call.d) \o <<"/">>
                            \o (IF BeginsWith(node.src, <<".", "/">>)
                                THEN SubSeq(node.src, 3, Len(node.src)) ELSE node.src))
            ELSE call.out.value[k] = node
C12_Witness ==
    /\ call.done /\ call.d = "/w/a.hbs"
    /\ call.html[1].src = <<" ", "\t", "D", "a", "T", "a", ":", "x">>
    /\ call.out.value[1] = call.html[1]
    /\ call.out.value[3].src = <<"vscode-resource:", "/", "w", "/", "b", ".", "p", "n", "g">>

\* slot i holds a render of session s suspended at its context load or about
\* to resume after it
Rendering(i, s) == tasks[i].pc \in {"ctxRead", "ctxLoaded"} /\ tasks[i].s = s

\* C13: no two renders of one session are in flight together: a render of a
\* session begins only after every earlier render of it has set the surface
\* content.
C13_RendersDoNotInterleave ==
    \A s \in Sessions : \A i, j \in TaskIds :
        (Rendering(i, s) /\ Rendering(j, s)) => i = j

\* C14: once the surface of a session is disposed the session stays
\* disposed, its surface content never changes and no render of it begins.
C14_DisposedIsTerminal ==
    [][\A s \in Sessions : scopes[s].panelDisposed =>
        /\ scopes'[s].panelDisposed /\ scopes'[s].watcherDisposed
        /\ scopes'[s].html = scopes[s].html
        /\ \A i \in TaskIds :
              (tasks'[i].pc = "ctxRead" /\ tasks'[i].s = s) => Rendering(i, s)]_vars

\* the loop in slot i is to reach session s in the state after the step
Reaches(i, s) == tasks'[i].s = s \/ s \in tasks'[i].todo

\* C15: after every step each session with a live surface is in `panels`;
\* an edit of a document starts a handler that is to reach every live
\* session of that document, and a fragment registration goes on to reach
\* every live session.
C15_LiveSessionsListed ==
    [][/\ \A s \in 1..Len(scopes') : ~scopes'[s].panelDisposed => (InPanels(s))'
       /\ \A d \in WsDocs : docText'[d] # docText[d] =>
            \A s \in Sessions :
                (scopes[s].doc = d /\ ~scopes[s].panelDisposed) =>
                    \E i \in TaskIds : tasks'[i].kind = "docchg" /\ Reaches(i, s)
       /\ \A i \in TaskIds :
            (tasks[i].kind = "partial" /\ tasks[i].pc = "fragLoaded"
                /\ tasks'[i] # tasks[i]) =>
                \A s \in Sessions : ~scopes[s].panelDisposed => Reaches(i, s)]_vars

\* the render of session s from the document text, the context file and the
\* registry as they are now
Current(s) ==
    getCompiledHtml(getContextData(ctxFile[scopes[s].doc]), docText[scopes[s].doc],
                    partials, scopes[s].doc)
\* Active: in `panels` with a live surface
Active(s) == InPanels(s) /\ ~scopes[s].panelDisposed
\* the surface of s shows the render of what is latest
Fresh(s) == Current(s).kind = "html" /\ scopes[s].html = Current(s).html
\* no handler is suspended and no watcher event is waiting
Quiescent == tasks = [i \in TaskIds |-> Idle] /\ pendingCtx = {}

\* C16: when a step leaves no handler in flight, the surface of every Active
\* session whose render succeeds shows the render of the latest document
\* text, context file and registry; and a render that loaded context data
\* older than the file does not replace the content of a surface that shows
\* the render of the latest data.
C16_SettlesOnLatest ==
    [][/\ Quiescent' =>
            \A s \in 1..Len(scopes') :
                (Active(s)' /\ (Current(s).kind)' = "html") => Fresh(s)'
       /\ \A i \in TaskIds : \A s \in Sessions :
            (Resumes(i) /\ tasks[i].s = s /\ Active(s) /\ Fresh(s)
                /\ tasks[i].ctx # getContextData(ctxFile[scopes[s].doc])) =>
                scopes'[s].html = scopes[s].html]_vars

\* C17: once deactivate() has run, every session of `panels` has its surface
\* disposed and its watcher released, and no session at all has a live
\* surface.
C17_DeactivateDisposesAll ==
    deactivated =>
        /\ \A s \in Sessions :
              InPanels(s) => scopes[s].panelDisposed /\ scopes[s].watcherDisposed
        /\ \A s \in Sessions : scopes[s].panelDisposed

====
